---- MODULE Spec2Model ----
(***************************************************************************)
(* Field descriptor lifecycle of strawberry/field.py: field() builds a     *)
(* FieldDefinition and wraps it in a StrawberryField (the Binder); the     *)
(* Binder's __call__ completes the descriptor with a resolver, and its     *)
(* __setattr__ mirrors writes of `type` and `name` into the descriptor.    *)
(* check_return_annotation is the separate validation entry point.         *)
(***************************************************************************)
EXTENDS Integers, Sequences, FiniteSets, TLC

(* ---------------------------------------------------------------------- *)
(* Python values                                                          *)
(* ---------------------------------------------------------------------- *)

\* Python's None.
None == "None"

\* Python truthiness of an optional string / optional reference:
\* None and the empty string are falsy.
Truthy(v) == v # None /\ v # ""

\* Python's `a or b`.
Or(a, b) == IF Truthy(a) THEN a ELSE b

(* ---------------------------------------------------------------------- *)
(* Bounds: the inputs the operations are exercised with                   *)
(* ---------------------------------------------------------------------- *)

\* Number of resolver functions available to the declaration site.
NumResolvers == 3

\* Number of distinct non-empty identifiers written to the Binder's name
\* attribute or passed as field(name=...).
NumNames == 2

AllResolvers == <<"r1", "r2", "r3", "r4">>
AllNames == <<"user_id", "full_name", "userId">>

Resolvers == {AllResolvers[i] : i \in 1..NumResolvers}

\* Values for name: None, the empty string, and identifiers.
NameValues == {None, ""} \cup {AllNames[i] : i \in 1..NumNames}

\* Values for type: None and a type object.
TypeValues == {None, "int"}

\* Values written to an attribute that is not intercepted.
OtherValues == {"meta"}

\* resolver.__name__
ResolverName(r) ==
    CASE r = "r1" -> "fetch_user"
      [] r = "r2" -> "get_name"
      [] r = "r3" -> "fetchUser"
      [] OTHER    -> "fetch_user"

\* typing.get_type_hints(resolver): the set of annotated keys among
\* {"return"} and the annotation of "return".  r2 declares no return type.
HasReturn(r) == r # "r2"

ReturnType(r) ==
    CASE r = "r1" -> "User"
      [] r = "r3" -> "str"
      [] OTHER    -> "User"

\* typing.get_type_hints(resolver).get("return")
HintsGetReturn(r) == IF HasReturn(r) THEN ReturnType(r) ELSE None

\* The parameters of the resolver's signature.
Params(r) ==
    CASE r = "r1" -> <<"id">>
      [] r = "r2" -> <<>>
      [] r = "r3" -> <<"id", "full">>
      [] OTHER    -> <<"id">>

(* ---------------------------------------------------------------------- *)
(* Collaborators                                                          *)
(* ---------------------------------------------------------------------- *)

\* utils.str_converters.to_camel_case on the identifiers of the model:
\* the components after the first are capitalised and the underscores
\* dropped; an identifier without underscore is returned as it is.
to_camel_case(s) ==
    CASE s = "fetch_user" -> "fetchUser"
      [] s = "get_name"   -> "getName"
      [] s = "user_id"    -> "userId"
      [] s = "full_name"  -> "fullName"
      [] OTHER            -> s

\* arguments.get_arguments_from_resolver(resolver, name): the argument
\* descriptors come from the resolver's signature; the name only labels
\* diagnostics.
get_arguments_from_resolver(resolver, name) == Params(resolver)

(* ---------------------------------------------------------------------- *)
(* State                                                                  *)
(* ---------------------------------------------------------------------- *)

VARIABLES
    heap,       \* the FieldDefinition instances allocated so far
    binder,     \* the StrawberryField's own attributes
    held,       \* TRUE when the declaration site holds the Binder
    backref,    \* resolver._field_definition: index into heap, 0 = absent
    prev,       \* heap as it was before the last operation
    lastOp,     \* the operation that ran last and its inputs
    returned,   \* what the last operation returned
    raised,     \* what the last operation raised
    argCalls    \* (resolver, name) passed to get_arguments_from_resolver
                \* by the last operation, in call order

vars == <<heap, binder, held, backref, prev, lastOp, returned, raised,
          argCalls>>

NoExc == [exc |-> None, arg |-> None]

NoOp ==
    [op |-> "none", resolver |-> None, attr |-> None, value |-> None,
     config |-> None]

(* ---------------------------------------------------------------------- *)
(* types.FieldDefinition and the code of field.py as operators            *)
(* ---------------------------------------------------------------------- *)

\* The FieldDefinition record as field() builds it.
FieldDefinition(origin_name, name, type, origin, description, base_resolver, is_subscription, permission_classes, arguments, federation) ==
    [origin_name        |-> origin_name,
     name               |-> name,
     type               |-> type,
     origin             |-> origin,
     description        |-> description,
     base_resolver      |-> base_resolver,
     is_subscription    |-> is_subscription,
     permission_classes |-> permission_classes,
     arguments          |-> arguments,
     federation         |-> federation]

\* Mutant: an empty type is not mirrored, as for name.
SetAttrTypeIfValue(old, value) == IF Truthy(value) THEN value ELSE old

\* __setattr__, `if name == "type"`: the new descriptor type.
SetAttrType(old, value) == value

\* Mutant: the write overwrites origin_name although it is already set.
SetAttrOriginNameOverwrite(old, value) == value

\* Mutant: the raw name is case-converted before it is kept as origin_name.
SetAttrOriginNameCased(old, value) ==
    IF ~Truthy(old) THEN to_camel_case(value) ELSE old

\* __setattr__, `if not origin_name`: the new descriptor origin_name.
SetAttrOriginName(old, value) == IF ~Truthy(old) THEN value ELSE old

\* __setattr__, `if not name`: the new descriptor name.
SetAttrName(old, value) == IF ~Truthy(old) THEN to_camel_case(value) ELSE old

\* Mutant: the name branch is taken for empty values too.
SetAttrNameGuardAnyValue(name, value) == name = "name"

\* __setattr__'s guard of the name branch: `value and name == "name"`.
SetAttrNameGuard(name, value) == Truthy(value) /\ name = "name"

\* The descriptor after StrawberryField.__setattr__(name, value).
SetAttrFd(fd, name, value) ==
    LET fd1 == IF name = "type"
               THEN [fd EXCEPT !.type = SetAttrType(fd.type, value)]
               ELSE fd
    IN  IF SetAttrNameGuard(name, value)
        THEN [fd1 EXCEPT
                !.origin_name = SetAttrOriginName(fd1.origin_name, value),
                !.name        = SetAttrName(fd1.name, value)]
        ELSE fd1

\* The Binder's attributes after super().__setattr__(name, value).
SetAttrBinder(b, name, value) == [b EXCEPT ![name] = value]

\* Mutant: the completion overwrites the name with the resolver's.
CallNameOverwrite(old, resolver_name) == resolver_name

\* Mutant: the completion never defaults the name.
CallNameKeep(old, resolver_name) == old

\* __call__: field_definition.name or resolver_name.
CallName(old, resolver_name) == Or(old, resolver_name)

\* Mutant: the completion keeps an origin_name that is already set.
CallOriginNameIfUnset(old, resolver_name) == Or(old, resolver_name)

\* __call__: field_definition.origin_name = resolver_name.
CallOriginName(old, resolver_name) == resolver_name

\* Mutant: the completion keeps a type that was written before it.
CallTypeKeepWritten(old, resolver) == Or(old, HintsGetReturn(resolver))

\* __call__: field_definition.type = get_type_hints(resolver).get("return").
CallType(old, resolver) == HintsGetReturn(resolver)

\* __call__: the name handed to get_arguments_from_resolver is self.name,
\* the Binder's own attribute.
CallArgumentsName(b, fd) == b["name"]

\* Mutant: the completion hands the resolver a copy of the descriptor, a
\* new instance.
CallTargetCopy(h, b) == Len(h) + 1

\* __call__: field_definition = self._field_definition, the instance that is
\* completed and that the resolver's back-reference is set to (no copy).
CallTarget(h, b) == b["_field_definition"]

\* Mutant: the completion enforces the return annotation.
CallRaisedEnforced(fd, resolver) ==
    IF HasReturn(resolver)
    THEN NoExc
    ELSE [exc |-> "MissingReturnAnnotationError", arg |-> fd.name]

\* __call__ infers the type and returns; the return annotation is not
\* enforced (the TODO above the inference), so the completion raises nothing.
CallRaised(fd, resolver) == NoExc

\* Mutant: the completion rebinds base_resolver to the resolver it is given.
CallBaseResolverRebind(old, resolver) == resolver

\* __call__ assigns name, origin_name, origin, arguments and type;
\* it has no assignment to base_resolver.
CallBaseResolver(old, resolver) == old

\* The descriptor after StrawberryField.__call__(resolver).
CallFd(fd, b, resolver) ==
    LET resolver_name == to_camel_case(ResolverName(resolver))
        fd1 == [fd EXCEPT !.name = CallName(fd.name, resolver_name)]
    IN  [fd1 EXCEPT
           !.origin_name   = CallOriginName(fd1.origin_name, resolver_name),
           !.origin        = resolver,
           !.base_resolver = CallBaseResolver(fd1.base_resolver, resolver),
           !.arguments     = get_arguments_from_resolver(
                                 resolver, CallArgumentsName(b, fd1)),
           !.type          = CallType(fd1.type, resolver)]

\* StrawberryField.__init__: the Binder's attributes.  dataclasses.Field's
\* initialiser assigns name = None and type = None on the Binder, then the
\* remaining Field attributes, all through __setattr__.
InitBinder(idx, fd) ==
    [_field_definition |-> idx,
     name              |-> None,
     type              |-> None,
     init              |-> (fd.base_resolver = None),
     metadata          |-> "{}"]

\* StrawberryField.__init__: the descriptor after the initialiser's writes
\* of name, type and the attributes that are not intercepted.
InitFd(fd) ==
    SetAttrFd(SetAttrFd(SetAttrFd(fd, "name", None), "type", None),
              "metadata", "{}")

\* Mutant: field() keeps the resolver's identifier as declared.
FieldResolverNameRaw(resolver) ==
    IF resolver # None THEN ResolverName(resolver) ELSE None

\* field(): the arguments before the descriptor is built.
FieldResolverName(resolver) ==
    IF resolver # None THEN to_camel_case(ResolverName(resolver)) ELSE None

\* Mutant: field() case-converts the explicit name.
FieldNameCased(resolver, name) ==
    to_camel_case(Or(name, FieldResolverName(resolver)))

\* field(): name = name or resolver_name, with a resolver only.
FieldName(resolver, name) ==
    IF resolver # None THEN Or(name, FieldResolverName(resolver)) ELSE name

FieldArguments(resolver) ==
    IF resolver # None
    THEN get_arguments_from_resolver(resolver, FieldResolverName(resolver))
    ELSE <<>>

\* field(): permission_classes or [].
FieldPermissionClasses(permission_classes) ==
    IF permission_classes = None THEN <<>> ELSE permission_classes

\* Mutant: field() stores federation as given, without the default.
FieldFederationAsGiven(federation) == federation

\* field(): federation or FederationFieldParams().
FieldFederation(federation) ==
    IF federation = None THEN "FederationFieldParams()" ELSE federation

\* field(): the FieldDefinition(...) call.
FieldFd(resolver, name, is_subscription, description, permission_classes, federation) ==
    FieldDefinition(FieldResolverName(resolver),
                    FieldName(resolver, name),
                    None,
                    resolver,
                    description,
                    resolver,
                    is_subscription,
                    FieldPermissionClasses(permission_classes),
                    FieldArguments(resolver),
                    FieldFederation(federation))

\* check_return_annotation(field_definition): the exception raised.
\* typing.get_type_hints raises TypeError when handed None.
check_return_annotation(fd) ==
    IF fd.base_resolver = None
    THEN [exc |-> "TypeError", arg |-> None]
    ELSE IF ~HasReturn(fd.base_resolver)
         THEN [exc |-> "MissingReturnAnnotationError", arg |-> fd.name]
         ELSE NoExc

(* ---------------------------------------------------------------------- *)
(* Initial state and operations                                           *)
(* ---------------------------------------------------------------------- *)

\* The descriptor the Binder refers to.
FD == heap[binder["_field_definition"]]

\* A field() call has run.
Declared == Len(heap) > 0

\* Before the declaration site calls field().
Init ==
    /\ heap = <<>>
    /\ binder = [_field_definition |-> 0, name |-> None, type |-> None,
                 init |-> TRUE, metadata |-> None]
    /\ held = FALSE
    /\ backref = [r \in Resolvers |-> 0]
    /\ prev = <<>>
    /\ lastOp = NoOp
    /\ returned = None
    /\ raised = NoExc
    /\ argCalls = <<>>

\* field(resolver, name=..., is_subscription=..., description=...,
\*       permission_classes=..., federation=...)
Field(resolver, name, is_subscription, description, permission_classes, federation) ==
    /\ ~Declared
    /\ LET fd0 == FieldFd(resolver, name, is_subscription, description,
                          permission_classes, federation)
           b   == InitBinder(1, fd0)
           fd1 == InitFd(fd0)
       IN  /\ binder' = b
           /\ IF resolver # None
              THEN /\ heap' = [<<fd1>> EXCEPT ![CallTarget(<<fd1>>, b)] =
                                  CallFd(fd1, b, resolver)]
                   /\ backref' = [backref EXCEPT ![resolver] =
                                     CallTarget(<<fd1>>, b)]
                   /\ returned' = resolver
                   /\ held' = FALSE
                   /\ argCalls' = << <<resolver, FieldResolverName(resolver)>>,
                                     <<resolver, CallArgumentsName(b, fd1)>> >>
              ELSE /\ heap' = <<fd1>>
                   /\ backref' = backref
                   /\ returned' = "binder"
                   /\ held' = TRUE
                   /\ argCalls' = <<>>
    /\ raised' = IF resolver # None THEN CallRaised(heap'[1], resolver)
                                    ELSE NoExc
    /\ prev' = heap
    /\ lastOp' = [op |-> "field", resolver |-> resolver, attr |-> None,
                  value |-> name,
                  config |-> <<is_subscription, description,
                               permission_classes, federation>>]

\* StrawberryField(field_definition), the Binder kept by its caller: the
\* object field() builds before it either returns or invokes it, with a
\* field_definition as field() builds it.
StrawberryField(resolver, name, is_subscription, description, permission_classes, federation) ==
    /\ ~Declared
    /\ LET fd0 == FieldFd(resolver, name, is_subscription, description,
                          permission_classes, federation)
       IN  /\ binder' = InitBinder(1, fd0)
           /\ heap' = <<InitFd(fd0)>>
    /\ held' = TRUE
    /\ returned' = "binder"
    /\ raised' = NoExc
    /\ argCalls' = IF resolver # None
                   THEN << <<resolver, FieldResolverName(resolver)>> >>
                   ELSE <<>>
    /\ prev' = heap
    /\ lastOp' = [op |-> "StrawberryField", resolver |-> resolver,
                  attr |-> None, value |-> name,
                  config |-> <<is_subscription, description,
                               permission_classes, federation>>]
    /\ UNCHANGED backref

\* binder(resolver): StrawberryField.__call__
Call(resolver) ==
    /\ held
    /\ heap' = [heap EXCEPT ![CallTarget(heap, binder)] =
                    CallFd(FD, binder, resolver)]
    /\ backref' = [backref EXCEPT ![resolver] = CallTarget(heap, binder)]
    /\ returned' = resolver
    /\ raised' = CallRaised(CallFd(FD, binder, resolver), resolver)
    /\ argCalls' = << <<resolver, CallArgumentsName(binder, FD)>> >>
    /\ prev' = heap
    /\ lastOp' = [op |-> "call", resolver |-> resolver, attr |-> None,
                  value |-> None, config |-> None]
    /\ UNCHANGED <<binder, held>>

\* binder.<name> = value: StrawberryField.__setattr__
SetAttr(name, value) ==
    /\ held
    /\ heap' = [heap EXCEPT ![binder["_field_definition"]] =
                    SetAttrFd(FD, name, value)]
    /\ binder' = SetAttrBinder(binder, name, value)
    /\ returned' = None
    /\ raised' = NoExc
    /\ argCalls' = <<>>
    /\ prev' = heap
    /\ lastOp' = [op |-> "setattr", resolver |-> None, attr |-> name,
                  value |-> value, config |-> None]
    /\ UNCHANGED <<held, backref>>

\* The descriptors the declaration site can reach: through the Binder it
\* holds and through the back-reference of a resolver.
Reachable ==
    (IF held THEN {binder["_field_definition"]} ELSE {})
        \cup {backref[r] : r \in {q \in Resolvers : backref[q] # 0}}

\* check_return_annotation(heap[i])
Check(i) ==
    /\ i \in Reachable
    /\ raised' = check_return_annotation(heap[i])
    /\ returned' = None
    /\ argCalls' = <<>>
    /\ prev' = heap
    /\ lastOp' = [op |-> "check", resolver |-> None, attr |-> None,
                  value |-> None, config |-> None]
    /\ UNCHANGED <<heap, binder, held, backref>>

\* The values the declaration site passes to field().
ResolverInputs == {None} \cup Resolvers

\* is_subscription, description, permission_classes, federation: all left
\* to their defaults, and all given.
ConfigInputs ==
    { <<FALSE, None, None, None>>,
      <<TRUE, "doc", <<"IsAuthenticated">>, "FederationFieldParams(provides)">> }

Next ==
    \/ \E resolver \in ResolverInputs, name \in NameValues,
          cfg \in ConfigInputs :
            Field(resolver, name, cfg[1], cfg[2], cfg[3], cfg[4])
    \/ \E resolver \in Resolvers, name \in NameValues,
          cfg \in ConfigInputs :
            StrawberryField(resolver, name, cfg[1], cfg[2], cfg[3], cfg[4])
    \/ \E resolver \in Resolvers : Call(resolver)
    \/ \E value \in NameValues : SetAttr("name", value)
    \/ \E value \in TypeValues : SetAttr("type", value)
    \/ \E value \in OtherValues : SetAttr("metadata", value)
    \/ \E i \in 1..Len(heap) : Check(i)

Spec == Init /\ [][Next]_vars

(* ---------------------------------------------------------------------- *)
(* Properties                                                             *)
(* ---------------------------------------------------------------------- *)

\* The descriptor before the last operation.
PrevFD == prev[1]

\* The last operation was a completion: the Binder invoked with a resolver,
\* or field() called with one.
Completed ==
    \/ lastOp.op = "call"
    \/ lastOp.op = "field" /\ lastOp.resolver # None

\* The last operation was a non-empty write to the Binder's name.
NameWritten ==
    lastOp.op = "setattr" /\ lastOp.attr = "name" /\ Truthy(lastOp.value)

\* C1 (as claimed): after the Binder of a Declared descriptor is invoked
\* with resolver r, the descriptor is Bound: base_resolver is r, origin_name
\* and arguments are those of r, and a name already set is unchanged.
C1_CompletionBinds ==
    (lastOp.op = "call" /\ PrevFD.base_resolver = None) =>
        /\ FD.base_resolver = lastOp.resolver
        /\ FD.origin_name = to_camel_case(ResolverName(lastOp.resolver))
        /\ FD.arguments = Params(lastOp.resolver)
        /\ (Truthy(PrevFD.name) => FD.name = PrevFD.name)

\* C2: the descriptor's name is write-once: once it holds a non-empty value
\* no operation changes it.
C2_NameWriteOnce ==
    [][(Declared /\ Truthy(FD.name)) => FD'.name = FD.name]_vars

\* C2 witness: a descriptor whose name was given to field() as "user_id"
\* has been completed, after a name write, and still carries "user_id".
C2_Witness ==
    /\ lastOp.op = "call"
    /\ Truthy(binder["name"])
    /\ PrevFD.name = "user_id"
    /\ FD.name = "user_id"
    /\ to_camel_case(ResolverName(lastOp.resolver)) # "user_id"

\* C3: after a completion with resolver r, origin_name is the camel-cased
\* identifier of r, whatever origin_name was before.
C3_OriginNameFromResolver ==
    Completed =>
        heap[1].origin_name = to_camel_case(ResolverName(lastOp.resolver))

\* C3 witness: the completion replaced a raw origin_name that an earlier
\* name write had set.
C3_Witness ==
    /\ lastOp.op = "call"
    /\ PrevFD.origin_name = binder["name"]
    /\ PrevFD.origin_name = "user_id"
    /\ FD.origin_name = "fetchUser"

\* C4 (as claimed): once origin_name holds a non-empty value no operation
\* changes it.
C4_OriginNameSetOnce ==
    [][(Declared /\ Truthy(FD.origin_name)) =>
            FD'.origin_name = FD.origin_name]_vars

\* C4 (amended): once origin_name holds a non-empty value, only a completion
\* changes it, and to the camel-cased identifier of the completing resolver;
\* no write to the Binder changes it.
C4_OriginNameChangedOnlyByCompletion ==
    [][(Declared /\ Truthy(FD.origin_name)
            /\ FD'.origin_name # FD.origin_name) =>
        /\ lastOp'.op = "call"
        /\ FD'.origin_name = to_camel_case(ResolverName(lastOp'.resolver))]_vars

\* C4 witness: a non-empty name write met an origin_name that was already
\* set to another value, and left it.
C4_Witness ==
    /\ NameWritten
    /\ Truthy(PrevFD.origin_name)
    /\ PrevFD.origin_name # lastOp.value
    /\ FD.origin_name = PrevFD.origin_name

\* C5: field(r) with no explicit name returns r, whose back-reference is a
\* Bound descriptor: name and origin_name are the camel-cased identifier of
\* r, base_resolver and origin are r, arguments and type come from r.
C5_ConstructWithResolver ==
    (lastOp.op = "field" /\ lastOp.resolver # None /\ lastOp.value = None) =>
        LET r == lastOp.resolver
        IN  /\ returned = r
            /\ ~held
            /\ backref[r] = 1
            /\ heap[backref[r]].name = to_camel_case(ResolverName(r))
            /\ heap[backref[r]].origin_name = to_camel_case(ResolverName(r))
            /\ heap[backref[r]].base_resolver = r
            /\ heap[backref[r]].origin = r
            /\ heap[backref[r]].arguments = Params(r)
            /\ heap[backref[r]].type = HintsGetReturn(r)

\* C5 witness: field(fetch_user) has returned the resolver and its
\* descriptor is named fetchUser.
C5_Witness ==
    /\ lastOp.op = "field"
    /\ lastOp.resolver = "r1"
    /\ lastOp.value = None
    /\ returned = "r1"
    /\ heap[1].name = "fetchUser"
    /\ heap[1].type = "User"

\* C6: field() without a resolver returns the Binder, whose descriptor is
\* Declared: base_resolver, origin, origin_name and type unset, arguments
\* empty, name exactly the explicit name passed (or unset).
C6_ConstructWithoutResolver ==
    (lastOp.op = "field" /\ lastOp.resolver = None) =>
        /\ returned = "binder"
        /\ held
        /\ FD.base_resolver = None
        /\ FD.origin = None
        /\ FD.origin_name = None
        /\ FD.type = None
        /\ FD.arguments = <<>>
        /\ FD.name = lastOp.value

\* C6 witness: field(name="user_id") has returned the Binder and the
\* descriptor's name is "user_id", not converted.
C6_Witness ==
    /\ lastOp.op = "field"
    /\ lastOp.resolver = None
    /\ lastOp.value = "user_id"
    /\ returned = "binder"
    /\ FD.name = "user_id"

\* C7: a non-empty write of v to the Binder's name sets origin_name to v
\* when it was unset and name to camel-case(v) when it was unset, and
\* leaves each unchanged otherwise.
C7_NameWrite ==
    NameWritten =>
        /\ FD.origin_name = IF Truthy(PrevFD.origin_name)
                            THEN PrevFD.origin_name
                            ELSE lastOp.value
        /\ FD.name = IF Truthy(PrevFD.name)
                     THEN PrevFD.name
                     ELSE to_camel_case(lastOp.value)

\* C7 witness: both were unset and the write of "user_id" gave
\* origin_name "user_id" and name "userId".
C7_Witness ==
    /\ NameWritten
    /\ ~Truthy(PrevFD.origin_name)
    /\ ~Truthy(PrevFD.name)
    /\ lastOp.value = "user_id"
    /\ FD.origin_name = "user_id"
    /\ FD.name = "userId"

\* C8 (as claimed): check_return_annotation on a descriptor that has had a
\* resolver attached, at construction or by a completion, raises
\* MissingReturnAnnotationError carrying the descriptor's name when the
\* resolver declares no return type, and raises nothing when it does.
C8_CheckReturnAnnotation ==
    (lastOp.op = "check" /\ heap[1].origin # None) =>
        raised = IF HasReturn(heap[1].origin)
                 THEN NoExc
                 ELSE [exc |-> "MissingReturnAnnotationError",
                       arg |-> heap[1].name]

\* C9: a completion raises nothing and returns the resolver, and leaves
\* type unset when the resolver declares no return type;
\* MissingReturnAnnotationError comes from check_return_annotation only.
C9_CompletionNeverRaises ==
    /\ Completed =>
           /\ raised = NoExc
           /\ returned = lastOp.resolver
           /\ (~HasReturn(lastOp.resolver) => heap[1].type = None)
    /\ raised.exc = "MissingReturnAnnotationError" => lastOp.op = "check"

\* C9 witness: the Binder was completed with a resolver that declares no
\* return type, after a type had been written.
C9_Witness ==
    /\ lastOp.op = "call"
    /\ ~HasReturn(lastOp.resolver)
    /\ PrevFD.type = "int"
    /\ returned = lastOp.resolver
    /\ raised = NoExc
    /\ FD.type = None

\* C10: once a completion has run on the descriptor, its name and
\* origin_name are non-null and non-empty, in every later state.
C10_NamesSetAfterCompletion ==
    (Declared /\ heap[1].origin # None) =>
        /\ Truthy(heap[1].name)
        /\ Truthy(heap[1].origin_name)

\* C10 witness: a descriptor declared without a name was completed, and a
\* name was written to the Binder afterwards.
C10_Witness ==
    /\ NameWritten
    /\ PrevFD.origin # None
    /\ FD.name = to_camel_case(ResolverName(FD.origin))
    /\ FD.name # to_camel_case(lastOp.value)

\* The resolvers that carry a back-reference.
Attached == {r \in Resolvers : backref[r] # 0}

\* C11: a completion returns the resolver, and the resolver's back-reference
\* and the Binder refer to one descriptor instance: no copy is allocated,
\* and a later write of type through the Binder is seen through every
\* back-reference.
C11_SharedDescriptor ==
    /\ Completed => (returned = lastOp.resolver /\ lastOp.resolver \in Attached)
    /\ \A r \in Attached : backref[r] = binder["_field_definition"]
    /\ Len(heap) <= 1
    /\ (lastOp.op = "setattr" /\ lastOp.attr = "type") =>
           \A r \in Attached : heap[backref[r]].type = lastOp.value

\* C11 witness: after the Binder was completed with fetch_user (User), a
\* write of type int through the Binder is read through the resolver's
\* back-reference.
C11_Witness ==
    /\ lastOp.op = "setattr"
    /\ lastOp.attr = "type"
    /\ lastOp.value = "int"
    /\ backref["r1"] # 0
    /\ heap[backref["r1"]].origin = "r1"
    /\ prev[backref["r1"]].type = "User"
    /\ heap[backref["r1"]].type = "int"

\* C12 (as claimed): a completion with r2 of a descriptor already completed
\* with another resolver r1 does not take effect: origin, origin_name,
\* arguments and type stay as derived from r1, also as read through r1's
\* back-reference.
C12_CompletesOnce ==
    (lastOp.op = "call" /\ PrevFD.origin # None
        /\ PrevFD.origin # lastOp.resolver) =>
        /\ FD.origin = PrevFD.origin
        /\ FD.origin_name = PrevFD.origin_name
        /\ FD.arguments = PrevFD.arguments
        /\ FD.type = PrevFD.type
        /\ heap[backref[PrevFD.origin]].origin = PrevFD.origin

\* C13: once base_resolver is set it stays set to the same resolver, under
\* every write and completion.
C13_BaseResolverStays ==
    [][(Declared /\ FD.base_resolver # None) =>
            FD'.base_resolver = FD.base_resolver]_vars

\* C13 witness: a Binder whose descriptor has base_resolver fetch_user was
\* completed with another resolver and base_resolver is still fetch_user.
C13_Witness ==
    /\ lastOp.op = "call"
    /\ lastOp.resolver # "r1"
    /\ PrevFD.base_resolver = "r1"
    /\ FD.base_resolver = "r1"
    /\ FD.origin = lastOp.resolver

\* C14 (as claimed): the completion invokes get_arguments_from_resolver with
\* the resolver and the descriptor's name as the completion has just fixed
\* it.
C14_ArgumentsLabelledWithName ==
    Completed =>
        argCalls[Len(argCalls)] = <<lastOp.resolver, heap[1].name>>

\* C15: a write of v to the Binder's type leaves descriptor.type = v and the
\* Binder's own type = v, for every v, None included.
C15_TypeWriteMirrored ==
    (lastOp.op = "setattr" /\ lastOp.attr = "type") =>
        /\ FD.type = lastOp.value
        /\ binder["type"] = lastOp.value

\* C15 witness: None was written over a descriptor type that was set.
C15_Witness ==
    /\ lastOp.op = "setattr"
    /\ lastOp.attr = "type"
    /\ lastOp.value = None
    /\ PrevFD.type # None
    /\ FD.type = None
    /\ binder["type"] = None

\* The configuration fields of a descriptor.
Config(fd) ==
    <<fd.is_subscription, fd.description, fd.permission_classes, fd.federation>>

\* C16: the configuration fields are as given at construction, with
\* permission_classes defaulting to the empty sequence and federation to an
\* empty instance, and no later operation changes them.
C16_ConfigFixed ==
    /\ lastOp.op \in {"field", "StrawberryField"} =>
           /\ FD.is_subscription = lastOp.config[1]
           /\ FD.description = lastOp.config[2]
           /\ FD.permission_classes =
                  IF lastOp.config[3] = None THEN <<>> ELSE lastOp.config[3]
           /\ FD.federation =
                  IF lastOp.config[4] = None THEN "FederationFieldParams()"
                                             ELSE lastOp.config[4]
    /\ Len(prev) > 0 => Config(FD) = Config(PrevFD)

\* C16 witness: a descriptor built with the defaults has been written to
\* and then completed, and still has the defaults.
C16_Witness ==
    /\ lastOp.op = "call"
    /\ Truthy(binder["name"])
    /\ binder["type"] = "int"
    /\ Config(FD) = <<FALSE, None, <<>>, "FederationFieldParams()">>

\* C17: a write to a Binder attribute other than type and name, and a write
\* of an empty or null value to name, change no field of the descriptor and
\* are stored on the Binder.
C17_OtherWritesPassThrough ==
    (lastOp.op = "setattr"
        /\ (lastOp.attr \notin {"type", "name"}
              \/ (lastOp.attr = "name" /\ ~Truthy(lastOp.value)))) =>
        /\ heap = prev
        /\ binder[lastOp.attr] = lastOp.value

\* C17 witness: the empty string was written to name while the descriptor's
\* name and origin_name were unset, and they still are.
C17_Witness ==
    /\ lastOp.op = "setattr"
    /\ lastOp.attr = "name"
    /\ lastOp.value = ""
    /\ binder["name"] = ""
    /\ FD.name = None
    /\ FD.origin_name = None

\* C18: a type write and a completion do not commute, the last one wins:
\* for every resolver r and type v other than r's return type, writing v
\* and then completing with r leaves r's return type, and completing with r
\* and then writing v leaves v.
C18_TypeLastWins ==
    (Declared /\ held) =>
        \A r \in Resolvers, v \in TypeValues :
            LET written == SetAttrFd(FD, "type", v)
                wb      == SetAttrBinder(binder, "type", v)
                first   == CallFd(written, wb, r)
                second  == SetAttrFd(CallFd(FD, binder, r), "type", v)
            IN  /\ written.type = v
                /\ first.type = HintsGetReturn(r)
                /\ second.type = v
                /\ v # HintsGetReturn(r) => first.type # second.type

\* C18 witness: int had been written through the Binder, and the completion
\* with fetch_user replaced it by User.
C18_Witness ==
    /\ lastOp.op = "call"
    /\ lastOp.resolver = "r1"
    /\ binder["type"] = "int"
    /\ PrevFD.type = "int"
    /\ FD.type = "User"

====
